---- MODULE Spec2Model ----
(***************************************************************************)
(* Model of src/main.py: a PEMDAS expression parser.                       *)
(*                                                                         *)
(* A Python str is a sequence of one-character strings, a list of tokens   *)
(* is a sequence of such sequences.  A call that raises returns a record   *)
(* [ok |-> FALSE, err |-> <exception>]; a call that returns gives          *)
(* [ok |-> TRUE, val |-> <value>].                                         *)
(***************************************************************************)
EXTENDS Integers, Sequences, FiniteSets, TLC

VARIABLES pc, ins, tokens, tree, printed, value, bracket, depth

vars == <<pc, ins, tokens, tree, printed, value, bracket, depth>>

----------------------------------------------------------------------------
(* Bounds of the input sets.                                               *)

\* longest input enumerated character by character
MaxLen == 5
\* most terms of an enumerated mixed-operator expression
MaxTerms == 4
\* most terms of an enumerated chain of one repeated operator
MaxChain == 5
\* most fraction digits of an enumerated number literal
MaxFrac == 5
\* largest numerator or denominator evaluate tracks exactly
MaxExact == 30000

----------------------------------------------------------------------------
(* Python values.                                                          *)

None == [type |-> "NoneType"]
Ok(v) == [ok |-> TRUE, val |-> v]
Raise(e) == [ok |-> FALSE, err |-> e]

\* the exceptions of the program, by the statement that raises them
NotABracketExpression == "ValueError: doesn't begin with a bracket expression"
UnbalancedBrackets == "ValueError: missing closing bracket"
EmptyExpression == "ValueError: empty list attained"
NoOperatorFound == "ValueError: no operators found in subexpression"
NumberFormatError == "ValueError: could not convert string to float"
ZeroDivisionError == "ZeroDivisionError: float division by zero"
MathDomainError == "ValueError: math domain error"
OverflowError == "OverflowError: math range error"
IndexError == "IndexError: string index out of range"

Digit == {"0", "1", "2", "3", "4", "5", "6", "7", "8", "9"}

\* string[n:]
Drop(string, n) == SubSeq(string, n + 1, Len(string))

----------------------------------------------------------------------------
(* PRECEDENCE, keyed by token.                                             *)

PRECEDENCE ==
    (<<"^">> :> 0) @@ (<<"*">> :> 1) @@ (<<"/">> :> 2) @@ (<<"+">> :> 3) @@ (<<"-">> :> 4)

----------------------------------------------------------------------------
(* get_bracket_token                                                       *)

RECURSIVE get_bracket_token_short(_, _, _)
\* the loop returning string[:j], without the closing bracket
get_bracket_token_short(string, j, counter) ==
    IF j >= Len(string)
    THEN Raise(UnbalancedBrackets)
    ELSE LET c == string[j + 1]
             counter2 == IF c = "(" THEN counter + 1
                         ELSE IF c = ")" THEN counter - 1
                         ELSE counter
         IN  IF counter2 = 0
             THEN Ok(SubSeq(string, 1, j))
             ELSE get_bracket_token_short(string, j + 1, counter2)

RECURSIVE get_bracket_token_loop(_, _, _)
\* the for loop; j is the 0-based index of the source, counter the value
\* before string[j] is read
get_bracket_token_loop(string, j, counter) ==
    IF j >= Len(string)
    THEN Raise(UnbalancedBrackets)
    ELSE LET c == string[j + 1]
             counter2 == IF c = "(" THEN counter + 1
                         ELSE IF c = ")" THEN counter - 1
                         ELSE counter
         IN  IF counter2 = 0
             THEN Ok(SubSeq(string, 1, j + 1))
             ELSE get_bracket_token_loop(string, j + 1, counter2)

get_bracket_token(string) ==
    IF string = <<>> THEN Raise(IndexError)
    ELSE IF string[1] # "("
    THEN Raise(NotABracketExpression)
    ELSE get_bracket_token_loop(string, 1, 1)

----------------------------------------------------------------------------
(* re.match('[0-9]+(\\.[0-9]+)?', input_str)                               *)

RECURSIVE DigitRun(_)
\* length of the longest prefix of s made of digits: the greedy [0-9]+
DigitRun(s) ==
    IF s # <<>> /\ Head(s) \in Digit THEN 1 + DigitRun(Tail(s)) ELSE 0

\* the match of '[0-9](\\.[0-9]+)?', one leading digit only
re_match_one_digit(input_str) ==
    LET rest == Drop(input_str, 1)
        f == IF rest # <<>> /\ Head(rest) = "." THEN DigitRun(Tail(rest)) ELSE 0
    IN  IF DigitRun(input_str) = 0 THEN <<>>
        ELSE IF f > 0 THEN SubSeq(input_str, 1, 2 + f)
        ELSE SubSeq(input_str, 1, 1)

\* match.group(0), or <<>> when re.match returns None
re_match_number(input_str) ==
    LET n == DigitRun(input_str)
        rest == Drop(input_str, n)
        f == IF rest # <<>> /\ Head(rest) = "." THEN DigitRun(Tail(rest)) ELSE 0
    IN  IF n = 0 THEN <<>>
        ELSE IF f > 0 THEN SubSeq(input_str, 1, n + 1 + f)
        ELSE SubSeq(input_str, 1, n)

----------------------------------------------------------------------------
(* create_toplevel_tokens                                                  *)

RECURSIVE create_toplevel_tokens_loop(_, _)
\* the while loop, with the list built so far
create_toplevel_tokens_loop(input_str, toks) ==
    IF input_str = <<>> THEN Ok(toks)
    ELSE IF input_str[1] = " "
    THEN create_toplevel_tokens_loop(Drop(input_str, 1), toks)
    ELSE IF re_match_number(input_str) # <<>>
    THEN LET number == re_match_number(input_str)
         IN  create_toplevel_tokens_loop(Drop(input_str, Len(number)), Append(toks, number))
    ELSE IF input_str[1] = "+"
    THEN create_toplevel_tokens_loop(Drop(input_str, 1), Append(toks, <<"+">>))
    ELSE IF input_str[1] = "-"
    THEN create_toplevel_tokens_loop(Drop(input_str, 1), Append(toks, <<"-">>))
    ELSE IF input_str[1] = "*"
    THEN create_toplevel_tokens_loop(Drop(input_str, 1), Append(toks, <<"*">>))
    ELSE IF input_str[1] = "/"
    THEN create_toplevel_tokens_loop(Drop(input_str, 1), Append(toks, <<"/">>))
    ELSE IF input_str[1] = "^"
    THEN create_toplevel_tokens_loop(Drop(input_str, 1), Append(toks, <<"^">>))
    ELSE LET bracket_expr == get_bracket_token(input_str)
         IN  IF ~bracket_expr.ok THEN bracket_expr
             ELSE create_toplevel_tokens_loop(Drop(input_str, Len(bracket_expr.val)),
                                              Append(toks, bracket_expr.val))

create_toplevel_tokens(input_str) == create_toplevel_tokens_loop(input_str, <<>>)

----------------------------------------------------------------------------
(* float(token) and str(float).                                            *)
(*                                                                         *)
(* A float made by float() from a number literal is kept as the decimal    *)
(* m * 10^e, with m >= 0 not a multiple of 10 (zero is m = 0, e = 0).      *)
(* A literal of at most 15 significant digits is recovered exactly by      *)
(* Python's shortest repr, so the decimal determines str(float).           *)

DigitVal == [c \in Digit |->
    CASE c = "0" -> 0 [] c = "1" -> 1 [] c = "2" -> 2 [] c = "3" -> 3 [] c = "4" -> 4
      [] c = "5" -> 5 [] c = "6" -> 6 [] c = "7" -> 7 [] c = "8" -> 8 [] c = "9" -> 9]

DigitChar == <<"0", "1", "2", "3", "4", "5", "6", "7", "8", "9">>

RECURSIVE DigitsToInt(_)
DigitsToInt(ds) ==
    IF ds = <<>> THEN 0
    ELSE 10 * DigitsToInt(SubSeq(ds, 1, Len(ds) - 1)) + DigitVal[ds[Len(ds)]]

RECURSIVE IntToDigits(_)
IntToDigits(n) ==
    IF n < 10 THEN <<DigitChar[n + 1]>>
    ELSE Append(IntToDigits(n \div 10), DigitChar[(n % 10) + 1])

RECURSIVE StripLeadingZeros(_)
StripLeadingZeros(ds) ==
    IF ds # <<>> /\ Head(ds) = "0" THEN StripLeadingZeros(Tail(ds)) ELSE ds

RECURSIVE TrailingZeros(_)
TrailingZeros(ds) ==
    IF ds # <<>> /\ ds[Len(ds)] = "0"
    THEN 1 + TrailingZeros(SubSeq(ds, 1, Len(ds) - 1))
    ELSE 0

RECURSIVE Zeros(_)
Zeros(n) == IF n <= 0 THEN <<>> ELSE <<"0">> \o Zeros(n - 1)

Float(m, e) == [type |-> "float", m |-> m, e |-> e]
Str(s) == [type |-> "str", s |-> s]

\* float(token), for the strings the tokenizer can hand over: a number
\* literal digits(.digits)? converts, anything else raises ValueError
float(token) ==
    LET n == DigitRun(token)
        rest == Drop(token, n)
        f == IF rest # <<>> /\ Head(rest) = "." THEN DigitRun(Tail(rest)) ELSE 0
        isInt == n > 0 /\ rest = <<>>
        isFrac == n > 0 /\ f > 0 /\ f = Len(rest) - 1
        digits == IF isInt THEN token ELSE SubSeq(token, 1, n) \o Tail(rest)
        sig == StripLeadingZeros(digits)
        tz == TrailingZeros(sig)
        mant == SubSeq(sig, 1, Len(sig) - tz)
    IN  IF ~(isInt \/ isFrac) THEN Raise(NumberFormatError)
        ELSE IF sig = <<>> THEN Ok(Float(0, 0))
        ELSE Ok(Float(DigitsToInt(mant), tz - (IF isInt THEN 0 ELSE f)))

\* f"{x}" of a float: repr's shortest digits, in positional notation when
\* 1e-4 <= x < 1e16 and in exponent notation otherwise
float_str(x) ==
    LET S == IntToDigits(x.m)
        L == Len(S)
        decpt == L + x.e
        ex == decpt - 1
        absex == IF ex < 0 THEN 0 - ex ELSE ex
        exdigits == IF absex < 10 THEN <<"0">> \o IntToDigits(absex) ELSE IntToDigits(absex)
    IN  IF x.m = 0 THEN <<"0", ".", "0">>
        ELSE IF decpt > 16 \/ decpt < -3
        THEN <<S[1]>> \o (IF L > 1 THEN <<".">> \o Tail(S) ELSE <<>>)
             \o <<"e", IF ex < 0 THEN "-" ELSE "+">> \o exdigits
        ELSE IF decpt <= 0 THEN <<"0", ".">> \o Zeros(0 - decpt) \o S
        ELSE IF decpt >= L THEN S \o Zeros(decpt - L) \o <<".", "0">>
        ELSE SubSeq(S, 1, decpt) \o <<".">> \o Drop(S, decpt)

----------------------------------------------------------------------------
(* class BSTNode                                                           *)

BSTNode(left, op, right) == [left |-> left, op |-> op, right |-> right]

is_number(self) == self.op.type = "float"

RECURSIVE BSTNode_str(_)
\* BSTNode.__str__
BSTNode_str(self) ==
    IF is_number(self)
    THEN float_str(self.op)
    ELSE <<"(">> \o BSTNode_str(self.left) \o <<" ">> \o self.op.s \o <<" ">>
         \o BSTNode_str(self.right) \o <<")">>

----------------------------------------------------------------------------
(* get_operator, parse, parse_tlt_expression                               *)

\* get_operator's None; positions are the 0-based indices of the source
NoPos == -1

RECURSIVE get_operator_loop(_, _, _, _)
\* the for loop, i running from len(tokens)-1 down to 0
get_operator_loop(toks, i, out, current_prec) ==
    IF i < 0 THEN out
    ELSE IF toks[i + 1] \in DOMAIN PRECEDENCE /\ PRECEDENCE[toks[i + 1]] > current_prec
    THEN get_operator_loop(toks, i - 1, i, PRECEDENCE[toks[i + 1]])
    ELSE get_operator_loop(toks, i - 1, out, current_prec)

RECURSIVE get_operator_loop_ge(_, _, _, _)
get_operator_loop_ge(toks, i, out, current_prec) ==
    IF i < 0 THEN out
    ELSE IF toks[i + 1] \in DOMAIN PRECEDENCE /\ PRECEDENCE[toks[i + 1]] >= current_prec
    THEN get_operator_loop_ge(toks, i - 1, i, PRECEDENCE[toks[i + 1]])
    ELSE get_operator_loop_ge(toks, i - 1, out, current_prec)

\* get_operator comparing with >=: the first operator of the greatest rank
get_operator_first(toks) == get_operator_loop_ge(toks, Len(toks) - 1, NoPos, -1)

RECURSIVE get_operator_loop_lt(_, _, _, _)
get_operator_loop_lt(toks, i, out, current_prec) ==
    IF i < 0 THEN out
    ELSE IF toks[i + 1] \in DOMAIN PRECEDENCE /\ PRECEDENCE[toks[i + 1]] < current_prec
    THEN get_operator_loop_lt(toks, i - 1, i, PRECEDENCE[toks[i + 1]])
    ELSE get_operator_loop_lt(toks, i - 1, out, current_prec)

\* get_operator comparing with <: no rank is below the initial -1
get_operator_reversed(toks) == get_operator_loop_lt(toks, Len(toks) - 1, NoPos, -1)

get_operator(toks) == get_operator_loop(toks, Len(toks) - 1, NoPos, -1)

\* "not pos": true of None and of 0
not_pos(pos) == pos = NoPos \/ pos = 0

RECURSIVE parse(_)
RECURSIVE parse_tlt_expression(_)

\* parse_tlt_expression building BSTNode(right, tokens[pos], left)
parse_tlt_expression_swapped(toks) ==
    IF Len(toks) = 0 THEN Raise(EmptyExpression)
    ELSE IF Len(toks) = 1
    THEN IF toks[1][1] = "(" /\ toks[1][Len(toks[1])] = ")"
         THEN parse(SubSeq(toks[1], 2, Len(toks[1]) - 1))
         ELSE LET x == float(toks[1])
              IN  IF ~x.ok THEN x ELSE Ok(BSTNode(None, x.val, None))
    ELSE LET pos == get_operator(toks)
         IN  IF not_pos(pos) THEN Raise(NoOperatorFound)
             ELSE LET left == parse_tlt_expression(SubSeq(toks, 1, pos))
                  IN  IF ~left.ok THEN left
                      ELSE LET right == parse_tlt_expression(SubSeq(toks, pos + 2, Len(toks)))
                           IN  IF ~right.ok THEN right
                               ELSE Ok(BSTNode(right.val, Str(toks[pos + 1]), left.val))

\* parse_tlt_expression without the check for an empty list: an empty
\* operand becomes the leaf 0.0
parse_tlt_expression_lenient(toks) ==
    IF Len(toks) = 0 THEN Ok(BSTNode(None, Float(0, 0), None))
    ELSE IF Len(toks) = 1
    THEN IF toks[1][1] = "(" /\ toks[1][Len(toks[1])] = ")"
         THEN parse(SubSeq(toks[1], 2, Len(toks[1]) - 1))
         ELSE LET x == float(toks[1])
              IN  IF ~x.ok THEN x ELSE Ok(BSTNode(None, x.val, None))
    ELSE LET pos == get_operator(toks)
         IN  IF not_pos(pos) THEN Raise(NoOperatorFound)
             ELSE LET left == parse_tlt_expression(SubSeq(toks, 1, pos))
                  IN  IF ~left.ok THEN left
                      ELSE LET right == parse_tlt_expression(SubSeq(toks, pos + 2, Len(toks)))
                           IN  IF ~right.ok THEN right
                               ELSE Ok(BSTNode(left.val, Str(toks[pos + 1]), right.val))

parse_tlt_expression(toks) ==
    IF Len(toks) = 0 THEN Raise(EmptyExpression)
    ELSE IF Len(toks) = 1
    THEN IF toks[1][1] = "(" /\ toks[1][Len(toks[1])] = ")"
         THEN parse(SubSeq(toks[1], 2, Len(toks[1]) - 1))
         ELSE LET x == float(toks[1])
              IN  IF ~x.ok THEN x ELSE Ok(BSTNode(None, x.val, None))
    ELSE LET pos == get_operator(toks)
         IN  IF not_pos(pos) THEN Raise(NoOperatorFound)
             ELSE LET left == parse_tlt_expression(SubSeq(toks, 1, pos))
                  IN  IF ~left.ok THEN left
                      ELSE LET right == parse_tlt_expression(SubSeq(toks, pos + 2, Len(toks)))
                           IN  IF ~right.ok THEN right
                               ELSE Ok(BSTNode(left.val, Str(toks[pos + 1]), right.val))

parse(string) ==
    LET toks == create_toplevel_tokens(string)
    IN  IF ~toks.ok THEN toks ELSE parse_tlt_expression(toks.val)

----------------------------------------------------------------------------
(* Float arithmetic of evaluate.                                           *)
(*                                                                         *)
(* A float made by arithmetic is tracked as the fraction n/d in lowest     *)
(* terms, [n |-> n, d |-> d], while n and d stay within MaxExact.  Beyond  *)
(* that the model does not follow the computation: its outcome, a float    *)
(* or an exception that the untracked float causes later, is Untracked.    *)
(* Rounding is not modelled: a tracked result is the exact quotient.       *)

Untracked == [ok |-> FALSE, err |-> "untracked"]

Abs(a) == IF a < 0 THEN 0 - a ELSE a

RECURSIVE GCD(_, _)
GCD(a, b) == IF b = 0 THEN a ELSE GCD(b, a % b)

\* the float n/d, d > 0
Frac(n, d) ==
    LET g == GCD(Abs(n), d)
    IN  IF Abs(n) \div g > MaxExact \/ d \div g > MaxExact THEN Untracked
        ELSE Ok([n |-> n \div g, d |-> d \div g])

RECURSIVE Pow10(_)
Pow10(k) == IF k = 0 THEN 1 ELSE 10 * Pow10(k - 1)

\* the fraction of a float kept as a decimal
DecimalToFrac(x) ==
    IF x.m = 0 THEN Frac(0, 1)
    ELSE IF x.m > MaxExact \/ x.e > 4 \/ x.e < -4 THEN Untracked
    ELSE IF x.e >= 0 THEN Frac(x.m * Pow10(x.e), 1)
    ELSE Frac(x.m, Pow10(0 - x.e))

float_add(a, b) == Frac(a.n * b.d + b.n * a.d, a.d * b.d)

float_sub(a, b) == Frac(a.n * b.d - b.n * a.d, a.d * b.d)

float_mul(a, b) == Frac(a.n * b.n, a.d * b.d)

\* Python's float division raises on a zero divisor
float_truediv(a, b) ==
    IF b.n = 0 THEN Raise(ZeroDivisionError)
    ELSE IF b.n < 0 THEN Frac((0 - a.n) * b.d, a.d * (0 - b.n))
    ELSE Frac(a.n * b.d, a.d * b.n)

RECURSIVE PowNat(_, _)
\* a^k by repeated multiplication, k a natural number
PowNat(a, k) ==
    IF k = 0 THEN Frac(1, 1)
    ELSE LET r == PowNat(a, k - 1)
         IN  IF ~r.ok THEN r ELSE Frac(r.val.n * a.n, r.val.d * a.d)

\* math.pow(a, b)
math_pow(a, b) ==
    IF b.n = 0 \/ a.n = a.d THEN Frac(1, 1)
    ELSE IF a.n = 0 THEN (IF b.n < 0 THEN Raise(MathDomainError) ELSE Frac(0, 1))
    ELSE IF b.d # 1 THEN (IF a.n < 0 THEN Raise(MathDomainError) ELSE Untracked)
    ELSE IF Abs(a.n) = a.d THEN Frac(IF b.n % 2 = 0 THEN 1 ELSE -1, 1)
    ELSE IF b.n >= 1024 /\ Abs(a.n) >= 2 * a.d THEN Raise(OverflowError)
    ELSE IF Abs(b.n) > 68 THEN Untracked
    ELSE IF b.n > 0 THEN PowNat(a, b.n)
    ELSE PowNat([n |-> IF a.n < 0 THEN 0 - a.d ELSE a.d, d |-> Abs(a.n)], 0 - b.n)

----------------------------------------------------------------------------
(* evaluate, evaluate_string                                               *)

RECURSIVE evaluate(_)
evaluate(t) ==
    IF is_number(t) THEN DecimalToFrac(t.op)
    ELSE LET l == evaluate(t.left)
         IN  IF ~l.ok THEN l
             ELSE LET r == evaluate(t.right)
                  IN  IF ~r.ok THEN r
                      ELSE IF t.op.s = <<"+">> THEN float_add(l.val, r.val)
                      ELSE IF t.op.s = <<"-">> THEN float_sub(l.val, r.val)
                      ELSE IF t.op.s = <<"*">> THEN float_mul(l.val, r.val)
                      ELSE IF t.op.s = <<"/">> THEN float_truediv(l.val, r.val)
                      ELSE IF t.op.s = <<"^">> THEN math_pow(l.val, r.val)
                      ELSE Ok(None)

evaluate_string(string) ==
    LET t == parse(string)
    IN  IF ~t.ok THEN t ELSE evaluate(t.val)

----------------------------------------------------------------------------
(* Depth of the call stack of parse.                                       *)

Max(a, b) == IF a >= b THEN a ELSE b

RECURSIVE parse_depth(_)
RECURSIVE parse_tlt_expression_depth(_)

\* the largest number of parse and parse_tlt_expression frames that are on
\* the stack together during parse_tlt_expression(toks), this call included
parse_tlt_expression_depth(toks) ==
    IF Len(toks) = 0 THEN 1
    ELSE IF Len(toks) = 1
    THEN IF toks[1][1] = "(" /\ toks[1][Len(toks[1])] = ")"
         THEN 1 + parse_depth(SubSeq(toks[1], 2, Len(toks[1]) - 1))
         ELSE 1
    ELSE LET pos == get_operator(toks)
         IN  IF not_pos(pos) THEN 1
             ELSE IF ~parse_tlt_expression(SubSeq(toks, 1, pos)).ok
             THEN 1 + parse_tlt_expression_depth(SubSeq(toks, 1, pos))
             ELSE 1 + Max(parse_tlt_expression_depth(SubSeq(toks, 1, pos)),
                          parse_tlt_expression_depth(SubSeq(toks, pos + 2, Len(toks))))

\* the same during parse(string), this call included
parse_depth(string) ==
    LET toks == create_toplevel_tokens(string)
    IN  IF ~toks.ok THEN 1 ELSE 1 + parse_tlt_expression_depth(toks.val)

----------------------------------------------------------------------------
(* The lines the program is run on.                                        *)

\* characters of the inputs enumerated character by character
Alphabet == {" ", "1", ".", "+", "-", "(", ")", "&"}

CharStrings == UNION {[1..k -> Alphabet] : k \in 0..MaxLen}

OpChar == {"^", "*", "/", "+", "-"}

RECURSIVE Join(_, _)
\* terms[1] ops[1] terms[2] ... ops[k-1] terms[k], written without spaces
Join(terms, ops) ==
    IF Len(terms) = 1 THEN terms[1]
    ELSE Join(SubSeq(terms, 1, Len(terms) - 1), SubSeq(ops, 1, Len(ops) - 1))
         \o <<ops[Len(ops)]>> \o terms[Len(terms)]

ExprTerms == {<<"2">>, <<"(", "1", " ", "-", " ", "3", ")">>}

\* every expression of at most MaxTerms terms
Exprs ==
    UNION {{Join(ts, os) : ts \in [1..k -> ExprTerms], os \in [1..(k - 1) -> OpChar]}
           : k \in 1..MaxTerms}

ChainTerms == {<<"1">>, <<"2">>, <<"3">>, <<"(", "2", " ", "-", " ", "3", ")">>}

\* every chain of 2..MaxChain terms joined by one operator
Chains ==
    UNION {{Join(ts, [i \in 1..(k - 1) |-> o]) : ts \in [1..k -> ChainTerms], o \in OpChar}
           : k \in 2..MaxChain}

\* number literals with a fraction of at most MaxFrac digits
NumberLits ==
    UNION {{i \o <<".">> \o f : i \in {<<"0">>, <<"1">>, <<"1", "2">>}, f \in [1..k -> {"0", "1"}]}
           : k \in 1..MaxFrac}

\* the strings of the doctests and of the documented examples
DocExamples == {
    \* "1 + 2 - 35 / (7 * 5)"
    <<"1", " ", "+", " ", "2", " ", "-", " ", "3", "5", " ", "/", " ", "(", "7", " ", "*", " ", "5", ")">>,
    \* "((1 + 2) + 3) + 4"
    <<"(", "(", "1", " ", "+", " ", "2", ")", " ", "+", " ", "3", ")", " ", "+", " ", "4">>,
    \* "1 + (2 + 3)"
    <<"1", " ", "+", " ", "(", "2", " ", "+", " ", "3", ")">>,
    \* "((1 + 2) +"
    <<"(", "(", "1", " ", "+", " ", "2", ")", " ", "+">>,
    \* "1 + 4 - 2 * (3.0 - 2) - 1"
    <<"1", " ", "+", " ", "4", " ", "-", " ", "2", " ", "*", " ", "(", "3", ".", "0", " ", "-", " ", "2", ")", " ", "-", " ", "1">>,
    \* "1 + 2 + 3"
    <<"1", " ", "+", " ", "2", " ", "+", " ", "3">>,
    \* "10 - 3 - 2"
    <<"1", "0", " ", "-", " ", "3", " ", "-", " ", "2">>,
    \* "8 / 4 / 2"
    <<"8", " ", "/", " ", "4", " ", "/", " ", "2">>,
    \* "1 / 0"
    <<"1", " ", "/", " ", "0">>,
    \* "1 2"
    <<"1", " ", "2">>,
    \* "1 + ("
    <<"1", " ", "+", " ", "(">>,
    \* "1 & 2"
    <<"1", " ", "&", " ", "2">>,
    \* "10000000000000000"
    <<"1", "0", "0", "0", "0", "0", "0", "0", "0", "0", "0", "0", "0", "0", "0", "0", "0">>}

Inputs == CharStrings \cup Exprs \cup Chains \cup NumberLits \cup DocExamples

----------------------------------------------------------------------------
(* The program: the read-parse-print loop and the library calls.           *)

Init ==
    /\ pc = "input"
    /\ ins = <<>>
    /\ tokens = None
    /\ tree = None
    /\ printed = None
    /\ value = None
    /\ bracket = None
    /\ depth = 0

\* ins = input()
Input ==
    /\ pc = "input"
    /\ \E line \in Inputs : ins' = line
    /\ pc' = "read"
    /\ UNCHANGED <<tokens, tree, printed, value, bracket, depth>>

\* get_bracket_token(ins), called on the line itself as its doctests do
GetBracketToken ==
    /\ pc = "read"
    /\ bracket' = get_bracket_token(ins)
    /\ pc' = "scanned"
    /\ UNCHANGED <<ins, tokens, tree, printed, value, depth>>

\* tree = parse(ins), first half: create_toplevel_tokens(string)
Tokenize ==
    /\ pc = "read"
    /\ tokens' = create_toplevel_tokens(ins)
    /\ depth' = 1
    /\ pc' = IF tokens'.ok THEN "tokenized" ELSE "raised"
    /\ UNCHANGED <<ins, tree, printed, value, bracket>>

\* tree = parse(ins), second half: parse_tlt_expression(tokens)
Build ==
    /\ pc = "tokenized"
    /\ tree' = parse_tlt_expression(tokens.val)
    /\ depth' = 1 + parse_tlt_expression_depth(tokens.val)
    /\ pc' = IF tree'.ok THEN "parsed" ELSE "raised"
    /\ UNCHANGED <<ins, tokens, printed, value, bracket>>

\* print(tree)
PrintTree ==
    /\ pc = "parsed"
    /\ printed' = BSTNode_str(tree.val)
    /\ pc' = "printed"
    /\ UNCHANGED <<ins, tokens, tree, value, bracket, depth>>

\* print(evaluate(tree))
PrintValue ==
    /\ pc = "printed"
    /\ value' = evaluate(tree.val)
    /\ pc' = IF value'.ok THEN "evaluated"
             ELSE IF value' = Untracked THEN "untracked" ELSE "raised"
    /\ UNCHANGED <<ins, tokens, tree, printed, bracket, depth>>

\* while True: the next iteration overwrites ins and tree before reading them
Loop ==
    /\ pc = "evaluated"
    /\ pc' = "input"
    /\ ins' = <<>>
    /\ tokens' = None
    /\ tree' = None
    /\ printed' = None
    /\ value' = None
    /\ depth' = 0
    /\ UNCHANGED bracket

Next ==
    \/ Input
    \/ GetBracketToken
    \/ Tokenize
    \/ Build
    \/ PrintTree
    \/ PrintValue
    \/ Loop

Spec == Init /\ [][Next]_vars

----------------------------------------------------------------------------
(* Vocabulary of the properties.                                           *)

Tokenized == tokens # None
Built == tree # None
Printed == printed # None
Evaluated == value # None
Scanned == bracket # None

IsOperator(tok) == tok \in DOMAIN PRECEDENCE

\* "(" minus ")" among the first j characters of s
DepthAfter(s, j) ==
    Cardinality({k \in 1..j : s[k] = "("}) - Cardinality({k \in 1..j : s[k] = ")"})

SetMin(S) == CHOOSE x \in S : \A y \in S : x <= y

RECURSIVE SortedSeq(_)
\* the elements of a set of numbers in increasing order
SortedSeq(S) == IF S = {} THEN <<>> ELSE <<SetMin(S)>> \o SortedSeq(S \ {SetMin(S)})

NumChar == Digit \cup {"."}

\* s is digits, or digits "." digits
IsNumberLiteral(s) ==
    /\ s # <<>>
    /\ \A i \in 1..Len(s) : s[i] \in NumChar
    /\ s[1] \in Digit /\ s[Len(s)] \in Digit
    /\ Cardinality({i \in 1..Len(s) : s[i] = "."}) <= 1

\* position i of s is outside every bracket group
TopLevel(s, i) == DepthAfter(s, i - 1) = 0 /\ s[i] # "("

\* a token of s starts at position i: an operator or an opening bracket
\* outside every group, or the first character of a run of digits and dots
TokenStart(s, i) ==
    /\ DepthAfter(s, i - 1) = 0
    /\ \/ s[i] \in OpChar
       \/ s[i] = "("
       \/ s[i] \in NumChar /\ (i = 1 \/ s[i - 1] \notin NumChar)

\* the last position of the token that starts at i
TokenEnd(s, i) ==
    IF s[i] = "(" THEN SetMin({j \in i..Len(s) : DepthAfter(s, j) = 0})
    ELSE IF s[i] \in OpChar THEN i
    ELSE SetMin({j \in i..Len(s) : j = Len(s) \/ s[j + 1] \notin NumChar})

\* the top-level numbers, operators and bracket groups of s, left to right
TopLevelItems(s) ==
    LET starts == SortedSeq({i \in 1..Len(s) : TokenStart(s, i)})
    IN  [k \in 1..Len(starts) |-> SubSeq(s, starts[k], TokenEnd(s, starts[k]))]

\* C7: whenever create_toplevel_tokens returns, its result is exactly the
\* top-level items of the input in input order: one token per operator
\* outside brackets, one per maximal digits(.digits)? run with its text
\* unchanged, one per balanced bracket group with its parentheses and its
\* interior unchanged, and nothing for the spaces between them.
C7_TokensAreTopLevelItems ==
    (Tokenized /\ tokens.ok) =>
        /\ tokens.val = TopLevelItems(ins)
        /\ \A i \in 1..Len(ins) :
               (TopLevel(ins, i) /\ ins[i] \notin OpChar \cup NumChar) => ins[i] = " "
        /\ \A k \in 1..Len(tokens.val) :
               \/ IsOperator(tokens.val[k])
               \/ IsNumberLiteral(tokens.val[k])
               \/ /\ tokens.val[k][1] = "("
                  /\ tokens.val[k][Len(tokens.val[k])] = ")"
                  /\ DepthAfter(tokens.val[k], Len(tokens.val[k])) = 0

\* "1 + 2 - 35 / (7 * 5)" has been tokenized
C7_Witness ==
    /\ Tokenized /\ tokens.ok
    /\ Len(ins) = 20
    /\ tokens.val = << <<"1">>, <<"+">>, <<"2">>, <<"-">>, <<"3", "5">>, <<"/">>,
                       <<"(", "7", " ", "*", " ", "5", ")">> >>

\* C8: on a non-empty string get_bracket_token returns the shortest prefix
\* that is a balanced group when the string starts with "(" and the depth
\* returns to 0, fails with the unbalanced-brackets error when it starts
\* with "(" and the depth never returns to 0, and fails with the
\* not-a-bracket-expression error when it does not start with "(".
C8_BracketScanner ==
    (Scanned /\ ins # <<>>) =>
        LET closes == {j \in 2..Len(ins) : DepthAfter(ins, j) = 0}
        IN  IF ins[1] # "(" THEN bracket = Raise(NotABracketExpression)
            ELSE IF closes = {} THEN bracket = Raise(UnbalancedBrackets)
            ELSE bracket = Ok(SubSeq(ins, 1, SetMin(closes)))

\* "((1 + 2) + 3) + 4" has been scanned and gave "((1 + 2) + 3)"
C8_Witness ==
    /\ Scanned /\ bracket.ok
    /\ Len(ins) = 17
    /\ Len(bracket.val) = 13
    /\ DepthAfter(ins, 2) = 2

----------------------------------------------------------------------------
(* The supported grammar and its standard value.                           *)

\* tokens[0][1:-1] of a bracket group
Interior(tok) == SubSeq(tok, 2, Len(tok) - 1)

IsGroup(tok) == tok[1] = "("

RECURSIVE Grammatical(_)
\* expr := term (operator term)*, term := number | "(" expr ")"
Grammatical(text) ==
    LET r == create_toplevel_tokens(text)
    IN  /\ r.ok
        /\ Len(r.val) % 2 = 1
        /\ \A i \in 1..Len(r.val) :
               IF i % 2 = 0 THEN IsOperator(r.val[i])
               ELSE /\ ~IsOperator(r.val[i])
                    /\ IsGroup(r.val[i]) => Grammatical(Interior(r.val[i]))

RECURSIVE OnlyAddMul(_)
\* no "^" outside or inside the bracket groups of a grammatical text
OnlyAddMul(text) ==
    LET toks == create_toplevel_tokens(text).val
    IN  \A i \in 1..Len(toks) :
            /\ toks[i] # <<"^">>
            /\ (~IsOperator(toks[i]) /\ IsGroup(toks[i])) => OnlyAddMul(Interior(toks[i]))

Apply(op, l, r) ==
    IF ~l.ok THEN l
    ELSE IF ~r.ok THEN r
    ELSE IF op = <<"+">> THEN float_add(l.val, r.val)
    ELSE IF op = <<"-">> THEN float_sub(l.val, r.val)
    ELSE IF op = <<"*">> THEN float_mul(l.val, r.val)
    ELSE float_truediv(l.val, r.val)

RECURSIVE StandardValue(_)
RECURSIVE StandardSum(_, _)
RECURSIVE StandardProduct(_, _)

\* the value of the first k tokens of a product t1 (*|/) t2 ..., left to right
StandardProduct(toks, k) ==
    LET term == IF IsGroup(toks[k]) THEN StandardValue(Interior(toks[k]))
                ELSE DecimalToFrac(float(toks[k]).val)
    IN  IF k = 1 THEN term
        ELSE Apply(toks[k - 1], StandardProduct(toks, k - 2), term)

\* the value of the first k tokens of a sum p1 (+|-) p2 ..., left to right,
\* each pi a product
StandardSum(toks, k) ==
    LET adds == {i \in 1..k : toks[i] \in {<<"+">>, <<"-">>}}
        last == CHOOSE i \in adds : \A j \in adds : j <= i
    IN  IF adds = {} THEN StandardProduct(toks, k)
        ELSE Apply(toks[last], StandardSum(toks, last - 1),
                   StandardProduct(SubSeq(toks, last + 1, k), k - last))

\* the value of a grammatical text without "^" under standard precedence
StandardValue(text) ==
    LET toks == create_toplevel_tokens(text).val
    IN  StandardSum(toks, Len(toks))

\* C1: for every expression built from numbers, parentheses and + - * /,
\* evaluate(parse(text)) is the value under standard precedence, * and / one
\* level and + and - one level, each taken left to right.
C1_StandardPrecedence ==
    (Evaluated /\ Grammatical(ins) /\ OnlyAddMul(ins)
        /\ value # Untracked /\ StandardValue(ins) # Untracked)
    => value = StandardValue(ins)

----------------------------------------------------------------------------
(* Chains of one operator.                                                 *)

\* toks is t1 op t2 op ... op tn with one operator op and n >= 2 terms
IsChain(toks) ==
    /\ Len(toks) >= 3
    /\ Len(toks) % 2 = 1
    /\ \A i \in 1..Len(toks) :
           IF i % 2 = 0 THEN IsOperator(toks[i]) /\ toks[i] = toks[2]
           ELSE ~IsOperator(toks[i]) /\ (IsGroup(toks[i]) => Grammatical(Interior(toks[i])))

RECURSIVE LeftNested(_, _)
\* ((t1 op t2) op t3) ... op tk over the first 2k-1 tokens of a chain
LeftNested(toks, k) ==
    IF k = 1 THEN parse_tlt_expression(<<toks[1]>>).val
    ELSE BSTNode(LeftNested(toks, k - 1), Str(toks[2]),
                 parse_tlt_expression(<<toks[2 * k - 1]>>).val)

Ex_1p2p3 == <<"1", " ", "+", " ", "2", " ", "+", " ", "3">>
Ex_10m3m2 == <<"1", "0", " ", "-", " ", "3", " ", "-", " ", "2">>
Ex_8d4d2 == <<"8", " ", "/", " ", "4", " ", "/", " ", "2">>

\* C2: a chain t1 op t2 op ... op tn of one operator parses as
\* ((t1 op t2) op t3) ... op tn, and "1 + 2 + 3", "10 - 3 - 2", "8 / 4 / 2"
\* evaluate to 6, 5 and 1.
C2_ChainsAreLeftAssociative ==
    /\ (Built /\ IsChain(tokens.val)) =>
           tree = Ok(LeftNested(tokens.val, (Len(tokens.val) + 1) \div 2))
    /\ (Evaluated /\ ins = Ex_1p2p3) => value = Ok([n |-> 6, d |-> 1])
    /\ (Evaluated /\ ins = Ex_10m3m2) => value = Ok([n |-> 5, d |-> 1])
    /\ (Evaluated /\ ins = Ex_8d4d2) => value = Ok([n |-> 1, d |-> 1])

\* a chain of four terms joined by "-" has been parsed and evaluated
C2_Witness ==
    /\ Evaluated /\ value.ok
    /\ IsChain(tokens.val)
    /\ Len(tokens.val) = 7
    /\ tokens.val[2] = <<"-">>
    /\ is_number(tree.val.right) /\ ~is_number(tree.val.left.left)

----------------------------------------------------------------------------
(* The split operator.                                                     *)

\* the rightmost operator token of the greatest rank in toks (1-based)
SplitPosition(toks) ==
    CHOOSE p \in 1..Len(toks) :
        /\ IsOperator(toks[p])
        /\ \A q \in 1..Len(toks) : IsOperator(toks[q]) =>
               /\ PRECEDENCE[toks[q]] <= PRECEDENCE[toks[p]]
               /\ q > p => PRECEDENCE[toks[q]] < PRECEDENCE[toks[p]]

Leaf(m) == BSTNode(None, Float(m, 0), None)
Node(l, o, r) == BSTNode(l, Str(<<o>>), r)

Ex_Shape ==
    <<"1", " ", "+", " ", "4", " ", "-", " ", "2", " ", "*", " ", "(", "3", ".", "0",
      " ", "-", " ", "2", ")", " ", "-", " ", "1">>

\* C3: the tree built from two or more tokens with an operator among them has
\* at its root the rightmost operator of the greatest rank present, the
\* tokens before it as left subtree and the tokens after it as right subtree;
\* "1 + 4 - 2 * (3.0 - 2) - 1" gets the shape (((1 + 4) - (2 * (3 - 2))) - 1).
C3_RootIsSplitOperator ==
    /\ (Built /\ tree.ok /\ Len(tokens.val) >= 2
            /\ \E i \in 1..Len(tokens.val) : IsOperator(tokens.val[i])) =>
           LET p == SplitPosition(tokens.val)
           IN  /\ ~is_number(tree.val)
               /\ tree.val.op = Str(tokens.val[p])
               /\ Ok(tree.val.left) = parse_tlt_expression(SubSeq(tokens.val, 1, p - 1))
               /\ Ok(tree.val.right) =
                      parse_tlt_expression(SubSeq(tokens.val, p + 1, Len(tokens.val)))
    /\ (Built /\ ins = Ex_Shape) =>
           tree = Ok(Node(Node(Node(Leaf(1), "+", Leaf(4)), "-",
                               Node(Leaf(2), "*", Node(Leaf(3), "-", Leaf(2)))),
                          "-", Leaf(1)))

\* a tree has been built whose root is neither the first nor the last
\* operator of the tokens
C3_Witness ==
    /\ Built /\ tree.ok
    /\ Len(tokens.val) = 5
    /\ tokens.val[2] = <<"*">> /\ tokens.val[4] = <<"-">>
    /\ tree.val.op = Str(<<"-">>)
    /\ ~is_number(tree.val.left)

----------------------------------------------------------------------------
(* Round trip, evaluation and errors.                                      *)

\* C4: re-parsing the canonical string of a tree returned by parse succeeds
\* and evaluates to the value of the tree.
C4_RoundTrip ==
    Printed =>
        /\ parse(printed).ok
        /\ evaluate(parse(printed).val) = evaluate(tree.val)

\* C5: evaluate returns a number for every tree returned by parse; a division
\* by zero gives infinity or NaN and no error.
C5_EvaluateNeverFails ==
    Evaluated => (value.ok \/ value = Untracked)

\* parse_tlt_expression(toks) raises at line 133 of this very call
RaisesNoOperatorHere(toks) == Len(toks) >= 2 /\ not_pos(get_operator(toks))

\* C6: parse_tlt_expression reports NoOperatorFound for a sequence exactly
\* when the sequence has two or more tokens and no operator token among them.
C6_NoOperatorFoundIffNoOperator ==
    Built =>
        (RaisesNoOperatorHere(tokens.val) /\ tree = Raise(NoOperatorFound))
        <=> (Len(tokens.val) >= 2 /\ \A i \in 1..Len(tokens.val) : ~IsOperator(tokens.val[i]))

RECURSIVE WellFormed(_)
\* an internal node has one of the five operators and two children, a leaf
\* has a number and none
WellFormed(t) ==
    IF is_number(t) THEN t.left = None /\ t.right = None
    ELSE /\ t.op.type = "str" /\ IsOperator(t.op.s)
         /\ t.left # None /\ t.right # None
         /\ WellFormed(t.left) /\ WellFormed(t.right)

\* the outcome of tree = parse(ins), once it is known
ParseReturned == Built /\ tree.ok
ParseRaised == (Tokenized /\ ~tokens.ok) \/ (Built /\ ~tree.ok)

\* C9: parse returns a tree exactly for the texts of the grammar, raises for
\* every other text, and every tree it returns is well formed.
C9_AcceptsExactlyTheGrammar ==
    /\ ParseReturned => Grammatical(ins) /\ WellFormed(tree.val)
    /\ ParseRaised => ~Grammatical(ins)

\* a text whose first term is a bracket group holding an expression has
\* been accepted
C9_Witness ==
    /\ ParseReturned
    /\ Len(tokens.val) = 3
    /\ IsGroup(tokens.val[1])
    /\ ~is_number(tree.val.left)

----------------------------------------------------------------------------
(* Recursion depth.                                                        *)

RECURSIVE MaxDepthAfter(_, _)
MaxDepthAfter(s, j) == IF j = 0 THEN 0 ELSE Max(DepthAfter(s, j), MaxDepthAfter(s, j - 1))

\* the bracket-nesting depth of a text
Nesting(s) == MaxDepthAfter(s, Len(s))

\* C10 as stated: the depth of nested parse and parse_tlt_expression calls is
\* bounded by the nesting depth alone, two frames per bracket level around
\* the three of a bracket-free expression, whatever the number of operators.
C10_DepthBoundedByNesting ==
    depth > 0 => depth <= 2 * Nesting(ins) + 3

\* toks is a chain of one operator whose terms are all numbers
IsNumberChain(toks) ==
    IsChain(toks) /\ \A i \in 1..Len(toks) : ~IsGroup(toks[i])

\* C10 amended: the depth is bounded by the length of the input plus two,
\* and it grows with the number of top-level operators: a bracket-free
\* chain of n terms takes n + 1 nested calls.
C10_DepthGrowsWithOperators ==
    /\ depth > 0 => depth <= Len(ins) + 2
    /\ (Built /\ IsNumberChain(tokens.val)) => depth = (Len(tokens.val) + 1) \div 2 + 1

\* a bracket-free chain of four terms has been parsed in five nested calls
C10_Witness ==
    /\ Built /\ IsNumberChain(tokens.val)
    /\ Len(tokens.val) = 7
    /\ depth = 5
    /\ Nesting(ins) = 0

====
